---- MODULE Spec2Model ----
(***************************************************************************)
(* Model of src/components/CodeSearchForm.tsx (the variant with the detail *)
(* overlay, lines 1-405): the CodeSearchForm view state, its event         *)
(* handlers and the completion of the search requests it issues.           *)
(*                                                                         *)
(* Text that the code trims or formats is a sequence of one-character      *)
(* strings.  An optional value (T | null, an optional field) is a sequence *)
(* of length at most one: <<>> when absent, <<v>> when present.  Optional  *)
(* string fields of a Match are "" when absent: the code only ever tests   *)
(* them for truthiness, which "" and undefined fail alike.                 *)
(***************************************************************************)
EXTENDS Integers, Sequences, FiniteSets, TLC

\* ---------------------------------------------------------------- bounds
MaxKeyLen == 2        \* longest keyword text typed into the field
MaxSubmits == 2       \* valid submits (hence requests) over one behaviour
MaxCodeLen == 2       \* longest code text of a match, EscapedTwice aside
MaxCopies == 2        \* clicks on the copy button over one behaviour

\* ------------------------------------------------------------- constants
AllRepositories == "all-repositories"

REPOSITORIES ==
  << "adjetter_main", "mainserverreports", "kapture-report",
     "streamlineservice", "ticket-history-analytics", "kapture-dashboard",
     AllRepositories >>

RepositoryOptions == { REPOSITORIES[i] : i \in DOMAIN REPOSITORIES }

\* JSON null in the repoName field of a request body.
NullRepo == "null"

\* ------------------------------------------------------------------ text
KeyChars == { " ", "a" }

Texts(chars, n) == UNION { [1..k -> chars] : k \in 0..n }

Keywords == Texts(KeyChars, MaxKeyLen)

IsSpace(c) == c \in { " ", "\t", "\n" }

SetMin(S) == CHOOSE x \in S : \A y \in S : x <= y

SetMax(S) == CHOOSE x \in S : \A y \in S : y <= x

\* String.prototype.trim: drop leading and trailing whitespace.
Trim(s) ==
  LET keep == { i \in 1..Len(s) : ~IsSpace(s[i]) }
  IN  IF keep = {} THEN << >> ELSE SubSeq(s, SetMin(keep), SetMax(keep))

\* --------------------------------------------------------------- matches
\* interface Match; a file match with code, a repo-level summary match and
\* a file match without code.
FileMatch ==
  [ repo |-> "r1", file |-> "a.ts", code |-> << "x", "\\", "n", "y" >>,
    explanation |-> "E", summary |-> "" ]

SummaryMatch ==
  [ repo |-> "r1", file |-> "", code |-> << >>,
    explanation |-> "", summary |-> "S" ]

BareMatch ==
  [ repo |-> "r2", file |-> "b.ts", code |-> << >>,
    explanation |-> "", summary |-> "" ]

\* The matches arrays the service answers with.
Responses ==
  { << >>,
    << FileMatch, SummaryMatch >>,
    << SummaryMatch, FileMatch >>,
    << BareMatch >> }

\* How a request can end: a 2xx response whose body is a SearchResponse,
\* a 2xx response whose JSON body is an object without matches, a 2xx
\* response whose JSON body is null, a 2xx response whose body is not JSON
\* (response.json() rejects), a non-2xx response, a rejected fetch.
Outcomes ==
  { "ok", "ok_no_matches", "ok_null", "bad_json", "http_error",
    "network_error" }

\* ----------------------------------------------------------------- state
VARIABLES
  keyword,        \* useState(""): text of the keyword field
  selectedRepo,   \* useState(""): value of the repository selector
  searchResults,  \* useState<SearchResponse | null>(null)
  isLoading,      \* useState(false)
  selectedMatch,  \* useState<Match | null>(null)
  isPopupOpen,    \* useState(false)
  inflight,       \* the fetch calls that have not settled yet
  toast,          \* notifications emitted by the last step
  fetched,        \* request bodies handed to fetch by the last step
  submits,        \* handleSearch invocations made with a non-blank keyword
  issued,         \* fetch calls made so far
  latest,         \* matches answered to the request submitted last, if any
  copied,         \* CodePopup: useState(false)
  clipboard,      \* text last written to the clipboard by the component
  writing,        \* the clipboard.writeText calls that have not settled yet
  timers,         \* pending setTimeout(() => setCopied(false), 2000)
  copies          \* clipboard.writeText calls made so far

\* The state of CodePopup and of the clipboard.
popupVars == << copied, clipboard, writing, timers, copies >>

vars ==
  << keyword, selectedRepo, searchResults, isLoading, selectedMatch,
     isPopupOpen, inflight, toast, fetched, submits, issued, latest,
     popupVars >>

\* ------------------------------------------------------- notifications
KeywordRequired ==
  [ title |-> "Keyword Required", variant |-> "destructive", found |-> -1 ]

SearchFailed ==
  [ title |-> "Search Failed", variant |-> "destructive", found |-> -1 ]

\* description: `Found ${data.matches.length} matches for "${keyword}"`
SearchComplete(n) ==
  [ title |-> "Search Complete", variant |-> "default", found |-> n ]

\* ------------------------------------------------------------- rendering
\* searchResults.matches of a present, well-formed searchResults.
HasMatches(sr) == sr # << >> /\ sr[1].matches # << >>

MatchesOf(sr) == IF HasMatches(sr) THEN sr[1].matches[1] ELSE << >>

\* The render of `searchResults && ...` reads searchResults.matches.length
\* and throws when matches is missing; nothing catches it and the
\* component is unmounted.
RenderThrows == searchResults # << >> /\ searchResults[1].matches = << >>

\* searchResults.matches.map((match, index) => <Card key={index}>)
DisplayedMatches == MatchesOf(searchResults)

\* {searchResults.matches.length} matches found
MatchesFound == Len(MatchesOf(searchResults))

\* disabled={isLoading || !keyword.trim()}
SubmitDisabled == isLoading \/ Trim(keyword) = << >>

\* ------------------------------------------------------------------ Init
Init ==
  /\ keyword = << >>
  /\ selectedRepo = ""
  /\ searchResults = << >>
  /\ isLoading = FALSE
  /\ selectedMatch = << >>
  /\ isPopupOpen = FALSE
  /\ inflight = {}
  /\ toast = << >>
  /\ fetched = << >>
  /\ submits = 0
  /\ issued = 0
  /\ latest = << >>
  /\ copied = FALSE
  /\ clipboard = << >>
  /\ writing = {}
  /\ timers = 0
  /\ copies = 0

\* --------------------------------------------------------------- actions
\* onChange={(e) => setKeyword(e.target.value)}
setKeyword(v) ==
  /\ ~RenderThrows
  /\ keyword' = v
  /\ toast' = << >>
  /\ fetched' = << >>
  /\ UNCHANGED << selectedRepo, searchResults, isLoading, selectedMatch,
                  isPopupOpen, inflight, submits, issued, latest, popupVars >>

\* <Select value={selectedRepo} onValueChange={setSelectedRepo}>
setSelectedRepo(r) ==
  /\ ~RenderThrows
  /\ selectedRepo' = r
  /\ toast' = << >>
  /\ fetched' = << >>
  /\ UNCHANGED << keyword, searchResults, isLoading, selectedMatch,
                  isPopupOpen, inflight, submits, issued, latest, popupVars >>

\* A body that sends the selector's value as it is, sentinel included.
RequestBodyRawRepo(kw, repo) ==
  [ pr |-> kw, force |-> "false", repoName |-> repo ]

\* body: JSON.stringify({ pr, force, repoName })
RequestBody(kw, repo) ==
  [ pr |-> kw, force |-> "false",
    repoName |-> IF repo = AllRepositories THEN NullRepo ELSE repo ]

\* A validation that forgets to trim: `if (!keyword)`.
KeywordMissingNoTrim(kw) == kw = << >>

\* if (!keyword.trim())
KeywordMissing(kw) == Trim(kw) = << >>

\* handleSearch up to its first await: validation, setIsLoading(true) and
\* the fetch call.  The request remembers searchResults as it was then.
handleSearch ==
  IF KeywordMissing(keyword)
  THEN /\ toast' = << KeywordRequired >>
       /\ fetched' = << >>
       /\ UNCHANGED << keyword, selectedRepo, searchResults, isLoading,
                       selectedMatch, isPopupOpen, inflight, issued, latest, popupVars >>
  ELSE /\ issued < MaxSubmits
       /\ isLoading' = TRUE
       /\ fetched' = << RequestBody(keyword, selectedRepo) >>
       /\ issued' = issued + 1
       /\ inflight' = inflight \cup { [ id |-> issued + 1,
                                        prior |-> searchResults ] }
       /\ toast' = << >>
       /\ latest' = << >>
       /\ UNCHANGED << keyword, selectedRepo, searchResults, selectedMatch,
                       isPopupOpen, popupVars >>

\* A submit made with a non-blank keyword is counted where it is made.
CountSubmit ==
  submits' = IF Trim(keyword) # << >> THEN submits + 1 ELSE submits

\* <Button onClick={handleSearch} disabled={...}>
ClickSearch ==
  /\ ~RenderThrows
  /\ ~SubmitDisabled
  /\ handleSearch
  /\ CountSubmit

\* onKeyPress={handleKeyPress}
handleKeyPress(key) ==
  /\ ~RenderThrows
  /\ IF key = "Enter"
     THEN handleSearch /\ CountSubmit
     ELSE /\ toast' = << >>
          /\ fetched' = << >>
          /\ UNCHANGED << keyword, selectedRepo, searchResults, isLoading,
                          selectedMatch, isPopupOpen, inflight, submits,
                          issued, latest, popupVars >>

\* A success that appends the new matches to the ones already shown.
ResultsAfterMerging(outcome, M, cur) ==
  CASE outcome = "ok" ->
         << [ matches |-> << (IF cur # << >> /\ cur[1].matches # << >>
                              THEN cur[1].matches[1] ELSE << >>) \o M >> ] >>
    [] outcome = "ok_no_matches" -> << [ matches |-> << >> ] >>
    [] outcome = "ok_null" -> << >>
    [] OTHER -> cur

\* try { ... setSearchResults(data); toast(...data.matches.length...) }
\* catch { ... }: the value of searchResults when the request has ended.
\* setSearchResults(data) runs before data.matches.length is read, so a
\* body without matches, or a null body, is stored before the read throws.
ResultsAfter(outcome, M, cur) ==
  CASE outcome = "ok" -> << [ matches |-> << M >> ] >>
    [] outcome = "ok_no_matches" -> << [ matches |-> << >> ] >>
    [] outcome = "ok_null" -> << >>
    [] OTHER -> cur

\* The notification of the try block or of the catch block.
ToastAfter(outcome, M) ==
  IF outcome = "ok" THEN SearchComplete(Len(M)) ELSE SearchFailed

\* setIsLoading(false) as the last statement of the try block instead of
\* the finally block: a request that fails leaves the flag as it was.
LoadingAfterTryOnly(outcome) == IF outcome = "ok" THEN FALSE ELSE isLoading

\* finally { setIsLoading(false) }
LoadingAfter(outcome) == FALSE

\* The matches answered to the request submitted last: kept when another
\* request ends, set when the request submitted last succeeds.
LatestAfter(id, outcome, M) ==
  IF id = issued /\ outcome = "ok" THEN << M >> ELSE latest

\* A catch block that sends the request again after a failure.
ResolveSearchRetrying(id, outcome, M) ==
  /\ \E r \in inflight :
       /\ r.id = id
       /\ IF outcome \in { "http_error", "network_error" }
             /\ issued < MaxSubmits
          THEN /\ inflight' = (inflight \ { r })
                                \cup { [ id |-> issued + 1,
                                         prior |-> r.prior ] }
               /\ issued' = issued + 1
               /\ fetched' = << RequestBody(keyword, selectedRepo) >>
               /\ isLoading' = TRUE
          ELSE /\ inflight' = inflight \ { r }
               /\ issued' = issued
               /\ fetched' = << >>
               /\ isLoading' = FALSE
  /\ searchResults' = ResultsAfter(outcome, M, searchResults)
  /\ toast' = << ToastAfter(outcome, M) >>
  /\ latest' = LatestAfter(id, outcome, M)
  /\ UNCHANGED << keyword, selectedRepo, selectedMatch, isPopupOpen,
                  submits, popupVars >>

\* A completion that closes the overlay when it replaces the results.
ResolveSearchClosingOverlay(id, outcome, M) ==
  /\ \E r \in inflight :
       /\ r.id = id
       /\ inflight' = inflight \ { r }
  /\ searchResults' = ResultsAfter(outcome, M, searchResults)
  /\ toast' = << ToastAfter(outcome, M) >>
  /\ latest' = LatestAfter(id, outcome, M)
  /\ isLoading' = LoadingAfter(outcome)
  /\ fetched' = << >>
  /\ isPopupOpen' = IF outcome = "ok" THEN FALSE ELSE isPopupOpen
  /\ selectedMatch' = IF outcome = "ok" THEN << >> ELSE selectedMatch
  /\ UNCHANGED << keyword, selectedRepo, submits, issued, popupVars >>

\* handleSearch from the settling of its fetch to its end.  Nothing is
\* written between `await fetch` and `await response.json()`, so the two
\* awaits are one step.
ResolveSearch(id, outcome, M) ==
  /\ \E r \in inflight :
       /\ r.id = id
       /\ inflight' = inflight \ { r }
  /\ searchResults' = ResultsAfter(outcome, M, searchResults)
  /\ toast' = << ToastAfter(outcome, M) >>
  /\ latest' = LatestAfter(id, outcome, M)
  /\ isLoading' = LoadingAfter(outcome)
  /\ fetched' = << >>
  /\ UNCHANGED << keyword, selectedRepo, selectedMatch, isPopupOpen,
                  submits, issued, popupVars >>

\* A handler that opens the overlay and forgets setSelectedMatch(match).
handleRepoClickKeepsMatch(match) ==
  /\ selectedMatch' = selectedMatch
  /\ isPopupOpen' = TRUE
  /\ toast' = << >>
  /\ fetched' = << >>
  /\ UNCHANGED << keyword, selectedRepo, searchResults, isLoading, inflight,
                  submits, issued, latest, popupVars >>

\* A handler that selects the match and forgets setIsPopupOpen(true).
handleRepoClickStaysClosed(match) ==
  /\ selectedMatch' = << match >>
  /\ isPopupOpen' = isPopupOpen
  /\ toast' = << >>
  /\ fetched' = << >>
  /\ UNCHANGED << keyword, selectedRepo, searchResults, isLoading, inflight,
                  submits, issued, latest, popupVars >>

handleRepoClick(match) ==
  /\ selectedMatch' = << match >>
  /\ isPopupOpen' = TRUE
  /\ toast' = << >>
  /\ fetched' = << >>
  /\ UNCHANGED << keyword, selectedRepo, searchResults, isLoading, inflight,
                  submits, issued, latest, popupVars >>

\* <button onClick={() => handleRepoClick(match)}> of the card at index i,
\* in the file layout and in the summary layout.
ClickRepoLabel(i) ==
  /\ ~RenderThrows
  /\ i \in DOMAIN DisplayedMatches
  /\ handleRepoClick(DisplayedMatches[i])

\* A close that forgets setSelectedMatch(null).
closePopupKeepsMatch ==
  /\ ~RenderThrows
  /\ isPopupOpen
  /\ selectedMatch # << >>
  /\ isPopupOpen' = FALSE
  /\ selectedMatch' = selectedMatch
  /\ toast' = << >>
  /\ fetched' = << >>
  /\ UNCHANGED << keyword, selectedRepo, searchResults, isLoading, inflight,
                  submits, issued, latest, popupVars >>

closePopup ==
  /\ ~RenderThrows
  /\ isPopupOpen
  /\ selectedMatch # << >>
  /\ isPopupOpen' = FALSE
  /\ selectedMatch' = << >>
  /\ toast' = << >>
  /\ fetched' = << >>
  /\ UNCHANGED << keyword, selectedRepo, searchResults, isLoading, inflight,
                  submits, issued, latest, popupVars >>

\* The keys pressed in the keyword field.
Keys == { "Enter", "a" }

\* Length of the longest result list.
MaxShown == SetMax({ Len(M) : M \in Responses })

Next ==
  \/ \E v \in Keywords : setKeyword(v)
  \/ \E r \in RepositoryOptions : setSelectedRepo(r)
  \/ ClickSearch
  \/ \E key \in Keys : handleKeyPress(key)
  \/ \E id \in 1..MaxSubmits, outcome \in Outcomes, M \in Responses :
       ResolveSearch(id, outcome, M)
  \/ \E i \in 1..MaxShown : ClickRepoLabel(i)
  \/ closePopup

Spec == Init /\ [][Next]_vars

\* ------------------------------------------------------------ CodePopup
\* The characters of a code text: backslash, the letters and quotes that
\* make an escape sequence after it, and a blank.
CodeChars == { "\\", "n", "t", "\"", "'", " " }

\* An escaped quote that is itself preceded by a backslash.
EscapedTwice ==
  { << "\\", "\\", "\"" >>, << "\\", "\\", "'" >> }

CodeTexts == Texts(CodeChars, MaxCodeLen) \cup EscapedTwice

\* s.replace(/\\c/g, rep): every backslash followed by c, scanned from the
\* left without looking again at what was just written, becomes rep.
RECURSIVE ReplaceEscaped(_, _, _)
ReplaceEscaped(s, c, rep) ==
  IF Len(s) < 2 THEN s
  ELSE IF s[1] = "\\" /\ s[2] = c
       THEN rep \o ReplaceEscaped(SubSeq(s, 3, Len(s)), c, rep)
       ELSE << s[1] >> \o ReplaceEscaped(Tail(s), c, rep)

\* A formatCode that forgets the final trim().
formatCodeNoTrim(rawCode) ==
  ReplaceEscaped(
    ReplaceEscaped(
      ReplaceEscaped(
        ReplaceEscaped(rawCode, "n", << "\n" >>),
        "t", << " ", " " >>),
      "\"", << "\"" >>),
    "'", << "'" >>)

\* CodeFormatter.formatCode: the text shown in the <pre> of the overlay.
formatCode(rawCode) ==
  Trim(
    ReplaceEscaped(
      ReplaceEscaped(
        ReplaceEscaped(
          ReplaceEscaped(rawCode, "n", << "\n" >>),
          "t", << " ", " " >>),
        "\"", << "\"" >>),
      "'", << "'" >>))

\* A copy that writes match.code as it is.
formattedCodeRaw(code) == code

\* handleCopy: const formattedCode = match.code.replace(...)...trim()
formattedCode(code) ==
  Trim(
    ReplaceEscaped(
      ReplaceEscaped(
        ReplaceEscaped(
          ReplaceEscaped(code, "n", << "\n" >>),
          "t", << " ", " " >>),
        "\"", << "\"" >>),
      "'", << "'" >>))

\* if (!isOpen || !match) return null
PopupRendered == isPopupOpen /\ selectedMatch # << >>

\* A content block that looks at the summary first.
ContentBlockSummaryFirst(m) ==
  IF m.summary # "" THEN "summary"
  ELSE IF m.code # << >> THEN "code" ELSE "placeholder"

\* match.code ? <CodeFormatter> : match.summary ? <summary> : <placeholder>
ContentBlock(m) ==
  IF m.code # << >> THEN "code"
  ELSE IF m.summary # "" THEN "summary" ELSE "placeholder"

\* {match.code && <Button onClick={handleCopy}>}
CopyButtonShown(m) == m.code # << >>

\* <CodeFormatter code={match.code} />
DisplayedCode == formatCode(selectedMatch[1].code)

\* A card layout chosen by the summary field.
CardLayoutBySummary(m) == IF m.summary # "" THEN "summary" ELSE "file"

\* {match.file ? <file layout> : <summary layout>}
CardLayout(m) == IF m.file # "" THEN "file" ELSE "summary"

\* The text of the clickable label of a card.
CardLabel(m) ==
  IF m.file # "" THEN << m.repo >> ELSE << "Summary - ", m.repo >>

CodeCopied ==
  [ title |-> "Code Copied", variant |-> "default", found |-> -1 ]

CopyFailed ==
  [ title |-> "Copy Failed", variant |-> "destructive", found |-> -1 ]

\* The state of CodeSearchForm that CodePopup never writes.
formVars ==
  << keyword, selectedRepo, searchResults, isLoading, inflight, submits,
     issued, latest >>

\* handleCopy up to its await: the click on the copy button formats the
\* code of the match it was rendered with and calls writeText.
handleCopy ==
  /\ ~RenderThrows
  /\ PopupRendered
  /\ CopyButtonShown(selectedMatch[1])
  /\ selectedMatch[1].code # << >>
  /\ copies < MaxCopies
  /\ copies' = copies + 1
  /\ writing' = writing \cup
                  { [ id |-> copies + 1,
                      text |-> formattedCode(selectedMatch[1].code),
                      raw |-> selectedMatch[1].code ] }
  /\ toast' = << >>
  /\ fetched' = << >>
  /\ UNCHANGED << formVars, selectedMatch, isPopupOpen, copied, clipboard,
                  timers >>

\* A handler that calls setCopied(true) whether or not the write failed.
CopiedAfterAlways(ok) == TRUE

\* setCopied(true) after the awaited write; the catch block leaves it.
CopiedAfter(ok) == IF ok THEN TRUE ELSE copied

\* handleCopy from the settling of writeText to its end.
WriteSettles(id, ok) ==
  /\ \E w \in writing :
       /\ w.id = id
       /\ writing' = writing \ { w }
       /\ clipboard' = IF ok THEN << w.text >> ELSE clipboard
  /\ copied' = CopiedAfter(ok)
  /\ toast' = IF ok THEN << CodeCopied >> ELSE << CopyFailed >>
  /\ timers' = IF ok THEN timers + 1 ELSE timers
  /\ fetched' = << >>
  /\ UNCHANGED << formVars, selectedMatch, isPopupOpen, copies >>

\* setTimeout(() => setCopied(false), 2000): one pending timer fires.
CopiedTimeout ==
  /\ timers > 0
  /\ timers' = timers - 1
  /\ copied' = FALSE
  /\ toast' = << >>
  /\ fetched' = << >>
  /\ UNCHANGED << formVars, selectedMatch, isPopupOpen, clipboard, writing,
                  copies >>

\* Matches of every shape: with and without file, code and summary.
ShapeMatches ==
  { [ repo |-> "r3", file |-> f, code |-> c, explanation |-> "",
      summary |-> sm ] :
      f \in { "", "b.ts" }, c \in { << >>, << "x" >> }, sm \in { "", "S" } }

\* File matches with every code text.
CodeMatches ==
  { [ repo |-> "r3", file |-> "b.ts", code |-> c, explanation |-> "E",
      summary |-> "" ] : c \in CodeTexts }

OverlayResponses ==
  { << m, FileMatch >> : m \in ShapeMatches \cup CodeMatches }

\* The states after the first search, made with keyword "a" and no
\* repository selected, has succeeded with two matches; a second search
\* may have been submitted since and be outstanding (taken for the
\* responses that start with a match of ShapeMatches).
OverlayInit ==
  \E M \in OverlayResponses, again \in BOOLEAN :
    /\ again => M[1] \in ShapeMatches
    /\ keyword = << "a" >>
    /\ selectedRepo = ""
    /\ searchResults = ResultsAfter("ok", M, << >>)
    /\ selectedMatch = << >>
    /\ isPopupOpen = FALSE
    /\ isLoading = again
    /\ inflight = IF again
                  THEN { [ id |-> 2, prior |-> ResultsAfter("ok", M, << >>) ] }
                  ELSE {}
    /\ toast = IF again THEN << >> ELSE << ToastAfter("ok", M) >>
    /\ fetched = IF again THEN << RequestBody(<< "a" >>, "") >> ELSE << >>
    /\ submits = IF again THEN 2 ELSE 1
    /\ issued = IF again THEN 2 ELSE 1
    /\ latest = IF again THEN << >> ELSE << M >>
    /\ copied = FALSE
    /\ clipboard = << >>
    /\ writing = {}
    /\ timers = 0
    /\ copies = 0

\* The overlay: opening it from the result list, copying, closing.
OverlayNext ==
  \/ \E i \in 1..MaxShown : ClickRepoLabel(i)
  \/ closePopup
  \/ handleCopy
  \/ \E id \in 1..MaxCopies, ok \in BOOLEAN : WriteSettles(id, ok)
  \/ CopiedTimeout

OverlaySpec == OverlayInit /\ [][OverlayNext]_vars

\* Every issued request settles: the assumption under which the flag is
\* claimed to be cleared.
Settle(id) ==
  \E outcome \in Outcomes, M \in Responses : ResolveSearch(id, outcome, M)

\* The steps the life of a request depends on: the keyword, the two
\* submit paths and the settling of requests.  The repository selector
\* and the overlay neither read nor write isLoading or the requests.
SearchNext ==
  \/ \E v \in Keywords : setKeyword(v)
  \/ ClickSearch
  \/ \E key \in Keys : handleKeyPress(key)
  \/ \E id \in 1..MaxSubmits, outcome \in Outcomes, M \in Responses :
       ResolveSearch(id, outcome, M)

FairSpec ==
  /\ Init
  /\ [][SearchNext]_vars
  /\ \A id \in 1..MaxSubmits : WF_vars(Settle(id))

\* ---------------------------------------------------------------- claims
FailureOutcomes == { "http_error", "network_error" }

\* C1: at most one search request is outstanding at any time.
AtMostOneOutstanding == Cardinality(inflight) <= 1

\* C2: whenever a search request is outstanding, isLoading is true and
\* the submit control is disabled.
LoadingWhileOutstanding ==
  inflight # {} => (isLoading /\ SubmitDisabled)

\* C3: a submit with an empty or whitespace-only keyword, by the button
\* or by Enter, issues no request, leaves searchResults and isLoading
\* unchanged and emits exactly the one notification "Keyword Required".
BlankSubmitIsNoOp ==
  [][ ((ClickSearch \/ handleKeyPress("Enter")) /\ Trim(keyword) = << >>)
      => /\ fetched' = << >>
         /\ issued' = issued
         /\ inflight' = inflight
         /\ searchResults' = searchResults
         /\ isLoading' = isLoading
         /\ Len(toast') = 1
         /\ toast'[1].title = "Keyword Required" ]_vars

\* C3 witness: a whitespace-only keyword was submitted while a request
\* was outstanding and got the validation notification.
BlankSubmitSeen ==
  /\ toast = << KeywordRequired >>
  /\ keyword # << >>
  /\ Trim(keyword) = << >>
  /\ isLoading

\* C4: when a request fails (non-2xx status or transport error),
\* searchResults is what it was before that request was submitted and
\* "Search Failed" is emitted.
FailureRestoresPrior ==
  [][ \A r \in inflight : \A outcome \in FailureOutcomes :
        ResolveSearch(r.id, outcome, << >>)
        => /\ searchResults' = r.prior
           /\ Len(toast') = 1
           /\ toast'[1].title = "Search Failed" ]_vars

\* C5: after a success with matches M the displayed list is exactly M,
\* and the count of the success notification and the "matches found"
\* count are both Len(M).
SuccessShowsResponse ==
  [][ \A id \in 1..MaxSubmits : \A M \in Responses :
        ResolveSearch(id, "ok", M)
        => /\ DisplayedMatches' = M
           /\ MatchesFound' = Len(M)
           /\ Len(toast') = 1
           /\ toast'[1].title = "Search Complete"
           /\ toast'[1].found = Len(M) ]_vars

\* C5 witness: the second search of a behaviour has succeeded with two
\* matches.
SecondSuccessSeen ==
  /\ toast # << >>
  /\ toast[1].title = "Search Complete"
  /\ toast[1].found = 2
  /\ DisplayedMatches = << SummaryMatch, FileMatch >>
  /\ issued = 2

\* C6: a request is issued with body {pr: keyword, force: "false",
\* repoName: r}, r being null for the "all-repositories" sentinel and the
\* selected repository otherwise.
BodyOfIssuedRequest ==
  fetched # << >>
  => /\ Len(fetched) = 1
     /\ fetched[1].pr = keyword
     /\ fetched[1].force = "false"
     /\ fetched[1].repoName = IF selectedRepo = "all-repositories"
                               THEN NullRepo ELSE selectedRepo

\* C6 witness: a request issued with the sentinel selected carries null.
SentinelRequestSeen ==
  /\ fetched # << >>
  /\ selectedRepo = "all-repositories"
  /\ fetched[1].repoName = NullRepo

\* C7: the pr field of an issued request is the keyword without its
\* leading and trailing whitespace.
PrIsTrimmedKeyword ==
  fetched # << >> => fetched[1].pr = Trim(keyword)

\* C8: the number of requests issued equals the number of submits made
\* with a non-blank keyword, one request per such submit, and a failed
\* request is not sent again.
OneRequestPerSubmit ==
  /\ issued = submits
  /\ Len(fetched) <= 1
  /\ Cardinality(inflight) <= issued

\* C8 witness: two valid submits were made, both requests have ended and
\* the last one failed.
FailedWithoutRetrySeen ==
  /\ submits = 2
  /\ inflight = {}
  /\ toast = << SearchFailed >>

\* C9: if every issued request settles, a set loading flag is eventually
\* cleared, whatever the outcome.
LoadingEventuallyCleared == isLoading ~> ~isLoading

\* C9 witness: a request has failed and the flag is clear.
ClearedAfterFailureSeen ==
  /\ issued > 0
  /\ inflight = {}
  /\ toast = << SearchFailed >>
  /\ ~isLoading

\* C10: clicking the repo label of the match at position i opens the
\* overlay on exactly results[i] and issues no request.
RepoClickOpensThatMatch ==
  [][ \A i \in 1..MaxShown :
        ClickRepoLabel(i)
        => /\ isPopupOpen'
           /\ selectedMatch' = << MatchesOf(searchResults)[i] >>
           /\ fetched' = << >>
           /\ issued' = issued
           /\ inflight' = inflight ]_vars

\* C10 witness: the overlay is open on the second of two different
\* displayed matches.
SecondMatchOpenSeen ==
  /\ isPopupOpen
  /\ Len(DisplayedMatches) = 2
  /\ DisplayedMatches[1] # DisplayedMatches[2]
  /\ selectedMatch = << DisplayedMatches[2] >>

\* An escape sequence: a backslash followed by n, t or a quote.
EscapeLetters == { "n", "t", "\"", "'" }

\* C11: closing the overlay sets the open flag to false and the selected
\* match to absent and leaves keyword, selected repository, searchResults
\* and isLoading unchanged.
CloseClearsOverlay ==
  [][ closePopup
      => /\ ~isPopupOpen'
         /\ selectedMatch' = << >>
         /\ keyword' = keyword
         /\ selectedRepo' = selectedRepo
         /\ searchResults' = searchResults
         /\ isLoading' = isLoading ]_vars

\* C11 witness: the overlay was open, a copy succeeded in it, and it was
\* closed before the timer fired, while a search was outstanding.
ClosedAfterCopySeen ==
  /\ ~isPopupOpen
  /\ selectedMatch = << >>
  /\ copied
  /\ isLoading
  /\ searchResults # << >>

\* C12: the overlay shows one content block, the code if code is present,
\* else the summary if summary is present, else the placeholder, and the
\* copy control is offered exactly when the code block is shown.
OverlayShowsOneBlock ==
  PopupRendered
  => LET m == selectedMatch[1]
     IN  /\ ContentBlock(m) \in { "code", "summary", "placeholder" }
         /\ (ContentBlock(m) = "code") = (m.code # << >>)
         /\ (ContentBlock(m) = "summary")
              = (m.code = << >> /\ m.summary # "")
         /\ (ContentBlock(m) = "placeholder")
              = (m.code = << >> /\ m.summary = "")
         /\ CopyButtonShown(m) = (ContentBlock(m) = "code")

\* C12 witness: the overlay is open on a summary-only match, showing the
\* summary and no copy button.
SummaryOnlyOverlaySeen ==
  /\ PopupRendered
  /\ selectedMatch[1].code = << >>
  /\ selectedMatch[1].summary = "S"
  /\ selectedMatch[1].file = ""
  /\ ContentBlock(selectedMatch[1]) = "summary"
  /\ ~CopyButtonShown(selectedMatch[1])

\* C13: every match of the result list is rendered in the file layout when
\* it has a file field and in the summary layout, labelled
\* "Summary - <repo>", when it has none.
CardLayoutByFile ==
  \A i \in DOMAIN DisplayedMatches :
    LET m == DisplayedMatches[i]
    IN  /\ CardLayout(m) \in { "file", "summary" }
        /\ (CardLayout(m) = "file") = (m.file # "")
        /\ (CardLayout(m) = "summary") = (m.file = "")
        /\ (m.file = "" => CardLabel(m) = << "Summary - ", m.repo >>)
        /\ (m.file # "" => CardLabel(m) = << m.repo >>)

\* C13 witness: a match with a file and a summary is listed in the file
\* layout next to one in the other layout.
BothLayoutsSeen ==
  /\ Len(DisplayedMatches) = 2
  /\ DisplayedMatches[1].file # ""
  /\ DisplayedMatches[1].summary # ""
  /\ CardLayout(DisplayedMatches[1]) = "file"
  /\ isPopupOpen

\* C14: formatting the code shown in the overlay again returns the same
\* text, and code with no escape sequence is shown trimmed.
FormatIsIdempotent ==
  (PopupRendered /\ selectedMatch[1].code # << >>)
  => /\ formatCode(DisplayedCode) = DisplayedCode
     /\ ((\A i \in 1..(Len(selectedMatch[1].code) - 1) :
            ~(selectedMatch[1].code[i] = "\\"
              /\ selectedMatch[1].code[i + 1] \in EscapeLetters))
         => DisplayedCode = Trim(selectedMatch[1].code))

\* C14 as amended: formatting the shown code again returns the same text
\* whenever the shown code has no escape sequence left, and code with no
\* escape sequence is shown trimmed.
FormatIdempotentOnUnescaped ==
  (PopupRendered /\ selectedMatch[1].code # << >>)
  => /\ ((\A i \in 1..(Len(DisplayedCode) - 1) :
            ~(DisplayedCode[i] = "\\"
              /\ DisplayedCode[i + 1] \in EscapeLetters))
         => formatCode(DisplayedCode) = DisplayedCode)
     /\ ((\A i \in 1..(Len(selectedMatch[1].code) - 1) :
            ~(selectedMatch[1].code[i] = "\\"
              /\ selectedMatch[1].code[i + 1] \in EscapeLetters))
         => DisplayedCode = Trim(selectedMatch[1].code))

\* C14 witness: the overlay shows code that had an escape sequence, and
\* the shown text has no escape sequence left.
FormattedCodeShownSeen ==
  /\ PopupRendered
  /\ selectedMatch[1].code = << "\\", "'" >>
  /\ DisplayedCode = << "'" >>

\* C15: the text handed to the clipboard equals the text displayed in the
\* overlay, and both are the raw code with escaped newline, escaped tab,
\* escaped double quote and escaped single quote replaced in that order
\* and then trimmed.
CopyEqualsDisplay ==
  /\ \A w \in writing :
       /\ w.text = formatCode(w.raw)
       /\ w.text =
            Trim(ReplaceEscaped(ReplaceEscaped(ReplaceEscaped(ReplaceEscaped(
              w.raw, "n", << "\n" >>), "t", << " ", " " >>),
              "\"", << "\"" >>), "'", << "'" >>))
  /\ (PopupRendered /\ selectedMatch[1].code # << >>)
     => DisplayedCode =
          Trim(ReplaceEscaped(ReplaceEscaped(ReplaceEscaped(ReplaceEscaped(
            selectedMatch[1].code, "n", << "\n" >>), "t", << " ", " " >>),
            "\"", << "\"" >>), "'", << "'" >>))

\* C15 witness: a copy of code with an escaped quote has succeeded and
\* the clipboard holds the shown text, which is not the raw code.
FormattedCopySeen ==
  /\ PopupRendered
  /\ selectedMatch[1].code = << "\\", "\"" >>
  /\ clipboard = << DisplayedCode >>
  /\ DisplayedCode = << "\"" >>

\* C16: after a successful copy the "copied" indicator stays true until
\* the timer started by that copy has fired.
CopiedUntilOwnTimer == timers > 0 => copied

\* C17: when the clipboard write fails, "Copy Failed" is emitted, the
\* indicator is not set, no timer is started and the overlay state and
\* the search state are unchanged.
CopyFailureLeavesState ==
  [][ \A id \in 1..MaxCopies :
        WriteSettles(id, FALSE)
        => /\ Len(toast') = 1
           /\ toast'[1].title = "Copy Failed"
           /\ copied' = copied
           /\ timers' = timers
           /\ clipboard' = clipboard
           /\ isPopupOpen' = isPopupOpen
           /\ selectedMatch' = selectedMatch
           /\ searchResults' = searchResults
           /\ isLoading' = isLoading ]_vars

\* C17 witness: the first copy has failed with the overlay still open.
CopyFailedSeen ==
  /\ toast = << CopyFailed >>
  /\ PopupRendered
  /\ ~copied
  /\ timers = 0
  /\ clipboard = << >>

\* C18: when no request is outstanding and the request submitted last
\* has succeeded, searchResults is the response to that request.
ResultsAreLatest ==
  (inflight = {} /\ latest # << >>)
  => (HasMatches(searchResults) /\ MatchesOf(searchResults) = latest[1])

\* C19: searchResults changes only in a step that emits "Search Complete".
ResultsChangeOnlyOnSuccess ==
  [][ searchResults' # searchResults
      => (Len(toast') = 1 /\ toast'[1].title = "Search Complete") ]_vars

\* C20: whenever the overlay is open, the selected match is an element of
\* the current result list.
SelectedMatchIsDisplayed ==
  (isPopupOpen /\ selectedMatch # << >>)
  => \E i \in DOMAIN DisplayedMatches :
       DisplayedMatches[i] = selectedMatch[1]

\* C20 as amended: the overlay opens on an element of the result list
\* displayed at that moment, and a step that replaces searchResults
\* leaves the open flag and the selected match as they are.
OverlayKeptAcrossResponses ==
  [][ /\ (isPopupOpen' /\ (selectedMatch' # selectedMatch \/ ~isPopupOpen))
         => /\ selectedMatch' # << >>
            /\ searchResults' = searchResults
            /\ \E i \in DOMAIN DisplayedMatches :
                 DisplayedMatches[i] = selectedMatch'[1]
      /\ (searchResults' # searchResults)
         => (isPopupOpen' = isPopupOpen /\ selectedMatch' = selectedMatch)
    ]_vars

\* C20 witness: a response has replaced the list while the overlay was
\* open, and the selected match is not among the displayed matches.
StaleOverlaySeen ==
  /\ isPopupOpen
  /\ selectedMatch = << FileMatch >>
  /\ HasMatches(searchResults)
  /\ DisplayedMatches = << BareMatch >>
  /\ toast = << SearchComplete(1) >>

\* The "Copied" label of the copy button is on screen.
CopiedIndicatorShown ==
  PopupRendered /\ CopyButtonShown(selectedMatch[1]) /\ copied

\* C21: whenever the overlay is open and shows the "Copied" indicator, the
\* text last written to the clipboard by the component is the formatted
\* code of the selected match.
CopiedIsOfSelectedMatch ==
  CopiedIndicatorShown
  => clipboard = << formattedCode(selectedMatch[1].code) >>

\* The values the repoName field of a request may take: null or a named
\* repository.
NamedRepositories == RepositoryOptions \ { AllRepositories }

\* C22: in every issued request the repoName field is null or one of the
\* named repositories of REPOSITORIES, whatever the selection, the initial
\* one included.
RepoNameIsNullOrNamed ==
  \A i \in DOMAIN fetched :
    fetched[i].repoName \in { NullRepo } \cup NamedRepositories

\* The view before any event: overlay closed, no selected match, no
\* results, not loading.
InitialView ==
  /\ ~isPopupOpen
  /\ selectedMatch = << >>
  /\ searchResults = << >>
  /\ ~isLoading

\* C23: the view starts closed, with no selected match, no results and
\* not loading, and in every reachable state the overlay is open exactly
\* when a selected match is present.
OpenIffSelected ==
  InitialView /\ [](isPopupOpen <=> selectedMatch # << >>)

\* C23 witness: the overlay has been opened on a summary match while a
\* request was outstanding.
OpenOnSummaryWhileLoadingSeen ==
  /\ isPopupOpen
  /\ selectedMatch = << SummaryMatch >>
  /\ isLoading
  /\ Cardinality(inflight) = 1
  /\ HasMatches(searchResults)

====
